---- MODULE Spec2Model ----
(***************************************************************************)
(* Model of the accumulation-score trackers:                               *)
(*   src/trackersimple.py  get_analysis_data + single-window classifier    *)
(*   src/tracker.py        analyze_dual_scores + dual-window classifier    *)
(*                                                                         *)
(* A float64 is modelled as an exact rational <<n, d>> in lowest terms     *)
(* with d > 0, or one of the IEEE specials, which pandas/numpy produce     *)
(* instead of raising on a division by zero:                               *)
(*   <<1, 0>> = +inf, <<-1, 0>> = -inf, <<0, 0>> = NaN.                    *)
(* Rounding of the float64 operations is not modelled.                     *)
(***************************************************************************)
EXTENDS Integers, Sequences, FiniteSets, TLC

VARIABLES
    variant,     \* which script runs: "simple" (trackersimple.py) or "dual" (tracker.py)
    fetchFails,  \* yf.download raises instead of returning a frame
    series,      \* the fetched frame df: a sequence of OHLCV bars
    pc,          \* "call" -> "returned" -> "rendered"
    derived,     \* the derived columns have been attached to df
    TP,          \* df['TP']
    VWAP,        \* df['VWAP']
    OBV,         \* df['OBV']
    result,      \* first component of the returned pair: "None" or "dict"
    error,       \* second component of the returned pair: "None" or a message
    score,       \* result['score'] (simple)
    short,       \* result['short'] (dual)
    mid,         \* result['mid'] (dual)
    label        \* what the main block renders

vars == <<variant, fetchFails, series, pc, derived, TP, VWAP, OBV,
          result, error, score, short, mid, label>>

-----------------------------------------------------------------------------
(* Bounds of the model *)

\* longest fetched series
MaxLen == 6

\* classifier inputs are the quarters k/4 for k in -MaxScoreQ .. MaxScoreQ
MaxScoreQ == 36

-----------------------------------------------------------------------------
(* float64 arithmetic *)

Abs(x) == IF x < 0 THEN -x ELSE x

Sign(x) == IF x > 0 THEN 1 ELSE IF x < 0 THEN -1 ELSE 0

RECURSIVE GCD(_, _)
GCD(a, b) == IF b = 0 THEN a ELSE GCD(b, a % b)

\* the value n/d, d any integer; n/0 is an infinity or NaN
Norm(n, d) ==
    IF d = 0 THEN <<Sign(n), 0>>
    ELSE LET g == GCD(Abs(n), Abs(d))
             s == Sign(d)
         IN  <<(s * n) \div g, (s * d) \div g>>

NaN == <<0, 0>>
PosInf == <<1, 0>>
NegInf == <<-1, 0>>
FromInt(i) == <<i, 1>>
Zero == FromInt(0)
One == FromInt(1)

IsNaN(a) == a = NaN
IsInf(a) == a = PosInf \/ a = NegInf
IsFinite(a) == a[2] > 0

Neg(a) == <<-a[1], a[2]>>

Add(a, b) ==
    IF IsNaN(a) \/ IsNaN(b) THEN NaN
    ELSE IF IsInf(a) THEN (IF IsInf(b) /\ b # a THEN NaN ELSE a)
    ELSE IF IsInf(b) THEN b
    ELSE Norm(a[1] * b[2] + b[1] * a[2], a[2] * b[2])

Sub(a, b) == Add(a, Neg(b))

\* inf * 0 = NaN, NaN * x = NaN fall out of Norm(0, 0)
Mul(a, b) == Norm(a[1] * b[1], a[2] * b[2])

\* x / 0 = +-inf, 0 / 0 = NaN, x / inf = 0, x / NaN = NaN
Div(a, b) ==
    IF IsNaN(a) \/ IsNaN(b) THEN NaN
    ELSE IF IsInf(a) /\ IsInf(b) THEN NaN
    ELSE IF IsInf(b) THEN Zero
    ELSE Norm(a[1] * b[2] * (IF b[1] < 0 THEN -1 ELSE 1), a[2] * Abs(b[1]))

\* position of a non-NaN value among -inf < finite < +inf
Tier(a) == IF IsFinite(a) THEN 0 ELSE a[1]

\* IEEE comparisons: every comparison with NaN is false
Lt(a, b) ==
    /\ ~IsNaN(a)
    /\ ~IsNaN(b)
    /\ \/ Tier(a) < Tier(b)
       \/ /\ IsFinite(a)
          /\ IsFinite(b)
          /\ a[1] * b[2] < b[1] * a[2]

Le(a, b) == ~IsNaN(a) /\ ~IsNaN(b) /\ (a = b \/ Lt(a, b))
Gt(a, b) == Lt(b, a)
Ge(a, b) == Le(b, a)

-----------------------------------------------------------------------------
(* The fetched frame *)

Bar(h, l, c, v) == [High |-> h, Low |-> l, Close |-> c, Volume |-> v]

\* the bars a fetched series is drawn from: positive prices with
\* Low <= Close <= High, non-negative integer volumes
BarChoices ==
    { Bar(11, 9, 10, 100),
      Bar(12, 10, 11, 200),
      Bar(11, 10, 10, 0),
      Bar(13, 10, 12, 100) }

\* the five-bar regression series: Close = [10,11,10,12,13], Volume = 100 each
ExampleSeries ==
    << Bar(11, 9, 10, 100), Bar(12, 10, 11, 100), Bar(11, 9, 10, 100),
       Bar(13, 11, 12, 100), Bar(14, 12, 13, 100) >>

SeriesChoices ==
    (UNION { [1..n -> BarChoices] : n \in 0..MaxLen }) \cup { ExampleSeries }

\* a pandas Series: the values of f as a sequence
Col(f) == f \o <<>>

\* df[name]
Column(df, name) == Col([i \in 1..Len(df) |-> df[i][name]])

\* mutant: the empty-frame check is missing
IsEmptyNever(df) == FALSE

\* df.empty
IsEmpty(df) == Len(df) = 0

-----------------------------------------------------------------------------
(* Indicator columns *)

\* Series.cumsum() of a float column
RECURSIVE CumNumFrom(_, _, _)
CumNumFrom(s, i, acc) ==
    IF i > Len(s) THEN <<>>
    ELSE LET a == Add(acc, s[i]) IN <<a>> \o CumNumFrom(s, i + 1, a)
CumSumNum(s) == CumNumFrom(s, 1, Zero)

\* Series.cumsum() of an int64 column
RECURSIVE CumIntFrom(_, _, _)
CumIntFrom(s, i, acc) ==
    IF i > Len(s) THEN <<>>
    ELSE LET a == acc + s[i] IN <<a>> \o CumIntFrom(s, i + 1, a)
CumSumInt(s) == CumIntFrom(s, 1, 0)

\* df['TP'] = (df['High'] + df['Low'] + df['Close']) / 3
TypicalPrice(df) ==
    Col([i \in 1..Len(df) |->
            Div(FromInt(df[i].High + df[i].Low + df[i].Close), FromInt(3))])

\* mutant: the running sum is divided by the bar's own volume
VWAPColumnPerBar(df, tp) ==
    LET pv == Col([i \in 1..Len(df) |-> Mul(tp[i], FromInt(df[i].Volume))])
        cumPV == CumSumNum(pv)
    IN  Col([i \in 1..Len(df) |-> Div(cumPV[i], FromInt(df[i].Volume))])

\* df['VWAP'] = (df['TP'] * df['Volume']).cumsum() / df['Volume'].cumsum()
VWAPColumn(df, tp) ==
    LET pv == Col([i \in 1..Len(df) |-> Mul(tp[i], FromInt(df[i].Volume))])
        cumPV == CumSumNum(pv)
        cumV == CumSumInt(Column(df, "Volume"))
    IN  Col([i \in 1..Len(df) |-> Div(cumPV[i], FromInt(cumV[i]))])

\* mutant: the first row of the difference is filled with 0
CloseDiffZeroFilled(df, i) ==
    IF i = 1 THEN Zero ELSE FromInt(df[i].Close - df[i - 1].Close)

\* df['Close'].diff(): NaN in the first row
CloseDiff(df, i) ==
    IF i = 1 THEN NaN ELSE FromInt(df[i].Close - df[i - 1].Close)

\* mutant: lt(0) in place of le(0), an unchanged close counts as up
DirectionTieUp(df, i) == IF Lt(CloseDiff(df, i), Zero) THEN -1 ELSE 1

\* ~df['Close'].diff().le(0) * 2 - 1
Direction(df, i) == IF Le(CloseDiff(df, i), Zero) THEN -1 ELSE 1

\* df['OBV'] = (df['Volume'] * (~df['Close'].diff().le(0) * 2 - 1)).cumsum()
OBVColumn(df) ==
    CumSumInt(Col([i \in 1..Len(df) |-> df[i].Volume * Direction(df, i)]))

-----------------------------------------------------------------------------
(* Score *)

\* the outcome of a score computation: a value, or an exception raised
Value(x) == [raised |-> FALSE, value |-> x]
Raised == [raised |-> TRUE, value |-> NaN]

\* Series.mean() of the int64 Volume column
Mean(s) == Div(FromInt(CumSumInt(s)[Len(s)]), FromInt(Len(s)))

\* the 100x multiplier of the VWAP efficiency
VwapBoost == 100

\* tracker.py calculate_score(data_slice); .iloc[0] of an empty slice raises
calculate_score(data_slice) ==
    IF Len(data_slice.OBV) = 0 THEN Raised
    ELSE LET day_start_obv == data_slice.OBV[1]
             current_obv == data_slice.OBV[Len(data_slice.OBV)]
             obv_growth == Div(FromInt(current_obv - day_start_obv),
                               Mean(data_slice.Volume))
             vwap_eff == Sub(Div(FromInt(data_slice.Close[Len(data_slice.Close)]),
                                 data_slice.VWAP[Len(data_slice.VWAP)]), One)
         IN  Value(Mul(obv_growth, Add(One, Mul(vwap_eff, FromInt(VwapBoost)))))

\* mutant: the OBV change is divided by the total volume, not the mean
acc_score_by_sum(df, vwap, obv) ==
    IF Len(df) = 0 THEN Raised
    ELSE LET day_start_obv == obv[1]
             current_obv == obv[Len(df)]
             total == FromInt(CumSumInt(Column(df, "Volume"))[Len(df)])
             obv_efficiency == Div(FromInt(current_obv - day_start_obv), total)
             vwap_efficiency == Sub(Div(FromInt(df[Len(df)].Close), vwap[Len(df)]), One)
         IN  Value(Mul(obv_efficiency, Add(One, Mul(vwap_efficiency, FromInt(VwapBoost)))))

\* trackersimple.py lines 63-73: the score over the whole frame
acc_score(df, vwap, obv) ==
    IF Len(df) = 0 THEN Raised
    ELSE LET day_start_obv == obv[1]
             current_obv == obv[Len(df)]
             obv_efficiency == Div(FromInt(current_obv - day_start_obv),
                                   Mean(Column(df, "Volume")))
             vwap_efficiency == Sub(Div(FromInt(df[Len(df)].Close), vwap[Len(df)]), One)
         IN  Value(Mul(obv_efficiency, Add(One, Mul(vwap_efficiency, FromInt(VwapBoost)))))

\* mutant: the split point is rounded up
short_slice_idx_ceil(n) == (4 * n + 4) \div 5

\* int(len(df) * 0.8)
short_slice_idx(n) == (4 * n) \div 5

\* df.iloc[k:] of a column (k is a 0-based position)
ILocFrom(col, k) == SubSeq(col, k + 1, Len(col))

\* the frame handed to calculate_score: df.iloc[k:] with its derived columns
Slice(df, vwap, obv, k) ==
    [Close  |-> ILocFrom(Column(df, "Close"), k),
     Volume |-> ILocFrom(Column(df, "Volume"), k),
     VWAP   |-> ILocFrom(vwap, k),
     OBV    |-> ILocFrom(obv, k)]

-----------------------------------------------------------------------------
(* Classifiers *)

\* thresholds of the main blocks
T1 == 1
T3 == 3
T8 == 8

\* mutant: the bands exclude their lower bounds
ClassifySimpleExclusive(s) ==
    IF Gt(s, FromInt(T8)) THEN "Overheated"
    ELSE IF Gt(s, FromInt(T3)) THEN "Strong"
    ELSE IF Gt(s, FromInt(T1)) THEN "Healthy"
    ELSE "Caution"

\* trackersimple.py main block: the band of a single score
ClassifySimple(s) ==
    IF Ge(s, FromInt(T8)) THEN "Overheated"
    ELSE IF Ge(s, FromInt(T3)) THEN "Strong"
    ELSE IF Ge(s, FromInt(T1)) THEN "Healthy"
    ELSE "Caution"

\* mutant: the first regime takes m >= 1.0
ClassifyDualInclusive(s, m) ==
    IF Gt(s, FromInt(T3)) /\ Ge(m, FromInt(T1)) THEN "StrongAlignment"
    ELSE IF Gt(s, FromInt(T3)) /\ Le(m, FromInt(T1)) THEN "ShortTermInflowOnly"
    ELSE IF Le(s, FromInt(T1)) /\ Gt(m, FromInt(T3)) THEN "MidTermHeldShortTermPullback"
    ELSE "WeakSignal"

\* tracker.py main block: the regime of a (short, mid) pair
ClassifyDual(s, m) ==
    IF Gt(s, FromInt(T3)) /\ Gt(m, FromInt(T1)) THEN "StrongAlignment"
    ELSE IF Gt(s, FromInt(T3)) /\ Le(m, FromInt(T1)) THEN "ShortTermInflowOnly"
    ELSE IF Le(s, FromInt(T1)) /\ Gt(m, FromInt(T3)) THEN "MidTermHeldShortTermPullback"
    ELSE "WeakSignal"

-----------------------------------------------------------------------------
(* State machine *)

\* a score field that the returned value does not carry
Unset == <<0, -1>>

ErrNoDataSimple == "NoData: ticker not found, check the ticker"
ErrNoDataDual == "NoData: ticker not found"
ErrFetchSimple == "analysis error: fetch failed"
ErrFetchDual == "fetch failed"
ErrIndexSimple == "analysis error: single positional indexer is out-of-bounds"
ErrIndexDual == "single positional indexer is out-of-bounds"

Init ==
    /\ variant \in {"simple", "dual"}
    /\ \/ fetchFails = FALSE /\ series \in SeriesChoices
       \/ fetchFails = TRUE /\ series = <<>>
    /\ pc = "call"
    /\ derived = FALSE
    /\ TP = <<>>
    /\ VWAP = <<>>
    /\ OBV = <<>>
    /\ result = "None"
    /\ error = "None"
    /\ score = Unset
    /\ short = Unset
    /\ mid = Unset
    /\ label = "none"

\* what an analysis call leaves behind: the returned pair and the frame's columns
Outcome(res, err, der, tp, vwap, obv, sc, sh, mi) ==
    [result |-> res, error |-> err, derived |-> der, TP |-> tp, VWAP |-> vwap,
     OBV |-> obv, score |-> sc, short |-> sh, mid |-> mi]

Failed(err, der, tp, vwap, obv) ==
    Outcome("None", err, der, tp, vwap, obv, Unset, Unset, Unset)

\* trackersimple.py get_analysis_data(symbol, p, i); fails: yf.download raises,
\* df: the frame it returns otherwise
get_analysis_data(fails, df) ==
    IF fails THEN Failed(ErrFetchSimple, FALSE, <<>>, <<>>, <<>>)
    ELSE IF IsEmpty(df) THEN Failed(ErrNoDataSimple, FALSE, <<>>, <<>>, <<>>)
    ELSE LET tp == TypicalPrice(df)
             vwap == VWAPColumn(df, tp)
             obv == OBVColumn(df)
             r == acc_score(df, vwap, obv)
         IN  IF r.raised
             THEN Failed(ErrIndexSimple, TRUE, tp, vwap, obv)
             ELSE Outcome("dict", "None", TRUE, tp, vwap, obv, r.value, Unset, Unset)

\* tracker.py analyze_dual_scores(symbol, p, i)
analyze_dual_scores(fails, df) ==
    IF fails THEN Failed(ErrFetchDual, FALSE, <<>>, <<>>, <<>>)
    ELSE IF IsEmpty(df) THEN Failed(ErrNoDataDual, FALSE, <<>>, <<>>, <<>>)
    ELSE LET tp == TypicalPrice(df)
             vwap == VWAPColumn(df, tp)
             obv == OBVColumn(df)
             mid_term_score == calculate_score(Slice(df, vwap, obv, 0))
             short_term_df == Slice(df, vwap, obv, short_slice_idx(Len(df)))
             short_term_score == calculate_score(short_term_df)
         IN  IF mid_term_score.raised \/ short_term_score.raised
             THEN Failed(ErrIndexDual, TRUE, tp, vwap, obv)
             ELSE Outcome("dict", "None", TRUE, tp, vwap, obv, Unset,
                          short_term_score.value, mid_term_score.value)

\* the call returns: its outcome becomes the state
Return(out) ==
    /\ pc' = "returned"
    /\ result' = out.result
    /\ error' = out.error
    /\ derived' = out.derived
    /\ TP' = out.TP
    /\ VWAP' = out.VWAP
    /\ OBV' = out.OBV
    /\ score' = out.score
    /\ short' = out.short
    /\ mid' = out.mid
    /\ UNCHANGED <<variant, fetchFails, series, label>>

\* trackersimple.py: result, error = get_analysis_data(ticker, period, interval)
GetAnalysisData ==
    /\ variant = "simple"
    /\ pc = "call"
    /\ Return(get_analysis_data(fetchFails, series))

\* tracker.py: result, error = analyze_dual_scores(ticker, period, interval)
AnalyzeDualScores ==
    /\ variant = "dual"
    /\ pc = "call"
    /\ Return(analyze_dual_scores(fetchFails, series))

\* trackersimple.py main block
MainSimple ==
    /\ variant = "simple"
    /\ pc = "returned"
    /\ pc' = "rendered"
    /\ label' = IF error # "None" THEN "Error"
                ELSE IF result = "dict" THEN ClassifySimple(score)
                ELSE "none"
    /\ UNCHANGED <<variant, fetchFails, series, derived, TP, VWAP, OBV,
                   result, error, score, short, mid>>

\* tracker.py main block
MainDual ==
    /\ variant = "dual"
    /\ pc = "returned"
    /\ pc' = "rendered"
    /\ label' = IF error # "None" THEN "Error"
                ELSE IF result = "dict" THEN ClassifyDual(short, mid)
                ELSE "none"
    /\ UNCHANGED <<variant, fetchFails, series, derived, TP, VWAP, OBV,
                   result, error, score, short, mid>>

Next == GetAnalysisData \/ AnalyzeDualScores \/ MainSimple \/ MainDual

Spec == Init /\ [][Next]_vars

-----------------------------------------------------------------------------
(* The classifiers as pure functions: the main blocks entered with scores   *)
(* drawn from a grid that holds the thresholds and the IEEE specials        *)

ScoreChoices ==
    { Norm(k, 4) : k \in (-MaxScoreQ)..MaxScoreQ } \cup { NaN, PosInf, NegInf }

InitClassify ==
    /\ variant \in {"simple", "dual"}
    /\ fetchFails = FALSE
    /\ series = <<>>
    /\ pc = "returned"
    /\ derived = FALSE
    /\ TP = <<>>
    /\ VWAP = <<>>
    /\ OBV = <<>>
    /\ result = "dict"
    /\ error = "None"
    /\ \/ variant = "simple" /\ score \in ScoreChoices /\ short = Unset /\ mid = Unset
       \/ variant = "dual" /\ score = Unset /\ short \in ScoreChoices /\ mid \in ScoreChoices
    /\ label = "none"

NextClassify == MainSimple \/ MainDual

SpecClassify == InitClassify /\ [][NextClassify]_vars

-----------------------------------------------------------------------------
(* Vocabulary of the properties *)

n == Len(series)

\* an analysis call on a fetched frame has returned
Returned == pc # "call" /\ ~fetchFails

\* total volume of bars i..j (1-based, inclusive)
RECURSIVE VolumeSum(_, _)
VolumeSum(i, j) == IF i > j THEN 0 ELSE series[i].Volume + VolumeSum(i + 1, j)

\* 0-based start of the short window, floor(0.8 * n)
k0 == (4 * n) \div 5

\* the windows the running variant scores, as (first, last) 1-based positions
ScoredWindows ==
    IF variant = "simple" THEN { <<1, n>> } ELSE { <<1, n>>, <<k0 + 1, n>> }

ReturnedScores == IF variant = "simple" THEN { score } ELSE { short, mid }

RenderedOk == pc = "rendered" /\ error = "None" /\ result = "dict"

SimpleLabels == { "Overheated", "Strong", "Healthy", "Caution" }

DualLabels ==
    { "StrongAlignment", "ShortTermInflowOnly", "MidTermHeldShortTermPullback",
      "WeakSignal" }

\* smallest and largest typical price among bars 1..i
MinTP(i) == CHOOSE x \in { TP[j] : j \in 1..i } : \A j \in 1..i : Le(x, TP[j])
MaxTP(i) == CHOOSE x \in { TP[j] : j \in 1..i } : \A j \in 1..i : Le(TP[j], x)

\* positions at which VWAP is defined
VWAPDefined == { i \in 1..n : VolumeSum(1, i) # 0 }

\* positions whose close equals the previous close
Ties == { i \in 2..n : series[i].Close = series[i - 1].Close }

-----------------------------------------------------------------------------
(* Properties *)

\* C1: for a non-empty series whose scored window has mean volume zero, the
\* analysis call returns an error and no result, and never a NaN or infinite
\* score.
C1_ZeroMeanVolumeFails ==
    (/\ Returned
     /\ n >= 1
     /\ \E w \in ScoredWindows : VolumeSum(w[1], w[2]) = 0)
    => /\ result = "None"
       /\ error # "None"
       /\ \A x \in ReturnedScores : x = Unset

\* C2: an empty fetched series makes either analysis call return the no-data
\* error with no result, with no derived column and no score computed.
C2_EmptySeriesIsNoData ==
    (Returned /\ n = 0)
    => /\ result = "None"
       /\ error = (IF variant = "simple" THEN ErrNoDataSimple ELSE ErrNoDataDual)
       /\ ~derived
       /\ TP = <<>> /\ VWAP = <<>> /\ OBV = <<>>
       /\ score = Unset /\ short = Unset /\ mid = Unset

C2_Witness ==
    /\ pc = "rendered"
    /\ ~fetchFails
    /\ n = 0
    /\ label = "Error"

\* C3: when the short window (bars floor(0.8 n) .. n-1) has fewer than two
\* bars, analyze_dual_scores returns an error instead of a short-term score.
C3_UndersizedShortWindowRejected ==
    (/\ variant = "dual"
     /\ Returned
     /\ n >= 1
     /\ n - k0 < 2)
    => /\ result = "None"
       /\ error # "None"
       /\ short = Unset

\* C4: on a non-empty series the mid-term score of analyze_dual_scores is the
\* score get_analysis_data returns for the same series.
C4_MidEqualsSingle ==
    (variant = "dual" /\ Returned /\ n >= 1)
    => LET single == get_analysis_data(FALSE, series)
       IN  /\ result = "dict"
           /\ single.result = "dict"
           /\ mid = single.score

C4_Witness ==
    /\ variant = "dual"
    /\ Returned
    /\ n >= 2
    /\ result = "dict"
    /\ IsFinite(mid)
    /\ mid # Zero

\* C5: the single-window classifier gives Overheated for s >= 8, Strong for
\* 3 <= s < 8, Healthy for 1 <= s < 3 and Caution for s < 1; every number
\* lies in exactly one band.
C5_SingleBands ==
    (variant = "simple" /\ RenderedOk)
    => LET bands == << Ge(score, FromInt(8)),
                       Ge(score, FromInt(3)) /\ Lt(score, FromInt(8)),
                       Ge(score, FromInt(1)) /\ Lt(score, FromInt(3)),
                       Lt(score, FromInt(1)) >>
       IN  /\ label \in SimpleLabels
           /\ bands[1] => label = "Overheated"
           /\ bands[2] => label = "Strong"
           /\ bands[3] => label = "Healthy"
           /\ bands[4] => label = "Caution"
           /\ ~IsNaN(score) => Cardinality({ b \in 1..4 : bands[b] }) = 1

C5_Witness ==
    /\ variant = "simple"
    /\ RenderedOk
    /\ score = FromInt(3)
    /\ label = "Strong"

\* C6: the dual-window classifier gives Strong Alignment for s > 3 and m > 1,
\* Short-Term Inflow Only for s > 3 and m <= 1, Mid-Term Held / Short-Term
\* Pullback for s <= 1 and m > 3, and Weak Signal for every other pair, among
\* them every pair with 1 < s <= 3.
C6_DualRegimes ==
    (variant = "dual" /\ RenderedOk)
    => LET regimes == << Gt(short, FromInt(3)) /\ Gt(mid, FromInt(1)),
                         Gt(short, FromInt(3)) /\ Le(mid, FromInt(1)),
                         Le(short, FromInt(1)) /\ Gt(mid, FromInt(3)) >>
           hits == { r \in 1..3 : regimes[r] }
       IN  /\ label \in DualLabels
           /\ Cardinality(hits) <= 1
           /\ label = "StrongAlignment" <=> regimes[1]
           /\ label = "ShortTermInflowOnly" <=> regimes[2]
           /\ label = "MidTermHeldShortTermPullback" <=> regimes[3]
           /\ label = "WeakSignal" <=> hits = {}
           /\ (Gt(short, FromInt(1)) /\ Le(short, FromInt(3))) => label = "WeakSignal"

C6_Witness ==
    /\ variant = "dual"
    /\ RenderedOk
    /\ short = FromInt(2)
    /\ mid = FromInt(5)
    /\ label = "WeakSignal"

\* C7 as stated: wherever VWAP[i] is defined it is strictly greater than the
\* minimum and strictly less than the maximum of TypicalPrice[0..i].
C7_VWAPStrictlyInside ==
    derived =>
        \A i \in VWAPDefined : Lt(MinTP(i), VWAP[i]) /\ Lt(VWAP[i], MaxTP(i))

\* C7 amended: wherever VWAP[i] is defined it is at least the minimum and at
\* most the maximum of TypicalPrice[0..i]; the bounds can be attained.
C7_VWAPWithinBounds ==
    derived =>
        \A i \in VWAPDefined : Le(MinTP(i), VWAP[i]) /\ Le(VWAP[i], MaxTP(i))

C7_Witness ==
    /\ derived
    /\ n >= 2
    /\ 1 \in VWAPDefined
    /\ VWAP[1] = MinTP(1)
    /\ VWAP[1] = MaxTP(1)
    /\ Lt(MinTP(n), VWAP[n])
    /\ Lt(VWAP[n], MaxTP(n))

\* C8: OBV[0] = Volume[0]; for i >= 1, OBV[i] = OBV[i-1] + Volume[i] when
\* Close[i] > Close[i-1] and OBV[i-1] - Volume[i] otherwise, so each step has
\* magnitude Volume[i]; Close = [10,11,10,12,13] with volumes 100 gives
\* OBV = [100,200,100,200,300].
C8_OBVRecurrence ==
    derived =>
        /\ Len(OBV) = n
        /\ OBV[1] = series[1].Volume
        /\ \A i \in 2..n :
              /\ OBV[i] = IF series[i].Close > series[i - 1].Close
                          THEN OBV[i - 1] + series[i].Volume
                          ELSE OBV[i - 1] - series[i].Volume
              /\ Abs(OBV[i] - OBV[i - 1]) = series[i].Volume
        /\ series = ExampleSeries => OBV = <<100, 200, 100, 200, 300>>

C8_Witness ==
    /\ derived
    /\ series = ExampleSeries
    /\ OBV = <<100, 200, 100, 200, 300>>

\* C9 as stated: a bar whose close equals the previous close has its volume
\* added to OBV.
C9_TieAddsVolume ==
    derived => \A i \in Ties : OBV[i] = OBV[i - 1] + series[i].Volume

\* C9 amended: a bar whose close equals the previous close has its volume
\* subtracted from OBV ("price unchanged" is folded into "price down").
C9_TieSubtractsVolume ==
    derived => \A i \in Ties : OBV[i] = OBV[i - 1] - series[i].Volume

C9_Witness ==
    /\ derived
    /\ \E i \in Ties : series[i].Volume > 0 /\ OBV[i] < OBV[i - 1]

\* C10: for n >= 1 bars the short window is bars k..n-1 with k = floor(0.8 n),
\* never empty, and the short score is
\* (OBV[n-1] - OBV[k]) / mean(Volume[k..n-1]) * (1 + (Close[n-1]/VWAP[n-1] - 1) * 100)
\* with OBV and VWAP the full-series columns.
C10_ShortWindowScore ==
    (variant = "dual" /\ Returned /\ n >= 1)
    => /\ k0 < n
       /\ result = "dict"
       /\ LET growth == Div(FromInt(OBV[n] - OBV[k0 + 1]),
                            Div(FromInt(VolumeSum(k0 + 1, n)), FromInt(n - k0)))
              eff == Sub(Div(FromInt(series[n].Close), VWAP[n]), One)
          IN  short = Mul(growth, Add(One, Mul(eff, FromInt(100))))

C10_Witness ==
    /\ variant = "dual"
    /\ Returned
    /\ n = 6
    /\ result = "dict"
    /\ OBV[k0 + 1] # OBV[1]
    /\ IsFinite(short)
    /\ short # Zero
    /\ short # mid

====
